---- MODULE Spec2Model ----
(***************************************************************************)
(* Model of the voting application in src/main.py over the schema of       *)
(* src/database.py: the tables players, games, sessions (with the          *)
(* session_participants association) and votes, and the request handlers   *)
(* create_session, submit_vote, delete_session and stats_page.             *)
(*                                                                         *)
(* Spec      the handlers run one after the other, each as one step.       *)
(* SpecConc  submit_vote requests run concurrently, one step per commit.   *)
(* SpecStats stats_page over stored sessions of three players.             *)
(***************************************************************************)
EXTENDS Integers, Sequences, FiniteSets, Bags

VARIABLES
    players,    \* ids of the rows of table players
    games,      \* ids of the rows of table games
    sessions,   \* table sessions: id -> [game_id, is_active, participants]
    votes,      \* table votes: bag of rows [session_id, voter_id, target_player_id, rank_score]
    last,       \* the request handled last and the return statement it reached
    response,   \* the response to that request
    balloted,   \* history: <<session_id, voter_id>> of the ballots submit_vote accepted
    reqs        \* submit_vote requests in progress (SpecConc)

vars == <<players, games, sessions, votes, last, response, balloted, reqs>>

(***************************************************************************)
(* Bounds                                                                  *)
(***************************************************************************)
MaxSessionId == 2   \* create_session is disabled once this id is in use
MaxBallotLen == 2   \* longest rankings list a request carries
NumReqs == 2        \* concurrent submit_vote requests (SpecConc)

\* The seeded catalogue (init_db), cut to its first rows.
SeedPlayers == {1, 2}
SeedGames == {1}
StatsPlayers == {1, 2, 3}
StatsGames == {1, 2}

\* Ids a request may carry: one more than the seeded rows, so that a request
\* can name a player or a game that does not exist.
PlayerIds == SeedPlayers \cup {3}
GameIds == SeedGames \cup {2}
SessionIds == 1..MaxSessionId

RECURSIVE SeqsUpTo(_, _)
SeqsUpTo(S, n) ==
    IF n = 0 THEN {<<>>}
    ELSE LET shorter == SeqsUpTo(S, n - 1)
         IN  shorter \cup {Append(q, x) : q \in shorter, x \in S}

\* rankings a request may carry (after json.loads and int())
Rankings == SeqsUpTo(SeedPlayers, MaxBallotLen)

Range(f) == {f[i] : i \in DOMAIN f}

Max(S) == CHOOSE m \in S : \A x \in S : x <= m

(***************************************************************************)
(* The store                                                               *)
(***************************************************************************)
\* INTEGER PRIMARY KEY without AUTOINCREMENT: the next rowid is max + 1.
NextRowId(ids) == IF ids = {} THEN 1 ELSE Max(ids) + 1

\* No handler reads Vote.id, so the table is kept as the bag of its rows without
\* the key: two rows equal in every other column are two copies of one element.
Rows(vs) == BagToSet(vs)

\* the rows of vs that are in S, each with its copies
Restrict(vs, S) == [r \in S \cap Rows(vs) |-> vs[r]]

SessionVotes(vs, session_id) ==
    Restrict(vs, {v \in Rows(vs) : v.session_id = session_id})

\* Session(game_id=..., date=...) with the column default is_active = 1
NewSession(game_id, participants) ==
    [game_id |-> game_id, is_active |-> 1, participants |-> participants]

\* db.query(Player).filter(Player.id.in_(player_ids)).all()
ResolveParticipants(pl, player_ids) == player_ids \cap pl

\* session.game: the related Game row, None when no row has that id
HasGame(gs, session) == session.game_id \in gs

\* variant: the relationship without a cascade, the rows stay behind
CascadeVotesNoCascade(vs, session_id) == EmptyBag

\* relationship votes, cascade="all, delete-orphan": the rows deleted with a session
CascadeVotes(vs, session_id) == SessionVotes(vs, session_id)

(***************************************************************************)
(* submit_vote, by parts                                                   *)
(***************************************************************************)
\* if not session or not session.game
SessionMissing(ss, gs, session_id) ==
    \/ session_id \notin DOMAIN ss
    \/ ~HasGame(gs, ss[session_id])

\* variant: the is_active check left out
IsClosedUnchecked(session) == FALSE

\* if session.is_active == 0
IsClosed(session) == session.is_active = 0

\* db.query(Vote).filter(session_id ==, voter_id ==).first()
ExistingVote(vs, session_id, voter_id) ==
    \E v \in Rows(vs) : v.session_id = session_id /\ v.voter_id = voter_id

\* the return statement the checks of lines 78-91 reach, "proceed" when none
CheckOutcome(ss, gs, vs, session_id, voter_id) ==
    IF SessionMissing(ss, gs, session_id) THEN "not_found"
    ELSE IF IsClosed(ss[session_id]) THEN "closed"
    ELSE IF ExistingVote(vs, session_id, voter_id) THEN "already_voted"
    ELSE IF voter_id \notin ss[session_id].participants THEN "not_participant"
    ELSE "proceed"

\* variant: the score counted from one position further down
RankScoreOffByOne(num_players, index) == num_players - index - 1

\* score = num_players - index
RankScore(num_players, index) == num_players - index

\* the Vote rows of one ballot; enumerate() counts from 0, sequences from 1
BallotVotes(session_id, voter_id, ranked_ids) ==
    LET num_players == Len(ranked_ids)
    IN  SetToBag({[session_id |-> session_id,
                   voter_id |-> voter_id,
                   target_player_id |-> ranked_ids[i],
                   rank_score |-> RankScore(num_players, i - 1)] : i \in 1..num_players})

\* {v[0] for v in db.query(Vote.voter_id).filter(session_id ==).distinct()}
VoterIds(vs, session_id) == {v.voter_id : v \in Rows(SessionVotes(vs, session_id))}

\* voter_ids >= set(participant_ids)
AllVoted(voter_ids, participant_ids) == participant_ids \subseteq voter_ids

\* if voter_ids >= set(participant_ids): session.is_active = 0
CloseIfAllVoted(ss, vs, session_id, participant_ids) ==
    IF AllVoted(VoterIds(vs, session_id), participant_ids)
    THEN [ss EXCEPT ![session_id].is_active = 0]
    ELSE ss

(***************************************************************************)
(* stats_page                                                              *)
(***************************************************************************)
RECURSIVE SumScores(_)
\* func.sum(Vote.rank_score) over the rows of a bag, 0 for none (NULL or 0)
SumScores(vs) ==
    IF Rows(vs) = {} THEN 0
    ELSE LET r == CHOOSE x \in Rows(vs) : TRUE
         IN  vs[r] * r.rank_score + SumScores(Restrict(vs, Rows(vs) \ {r}))

RECURSIVE AscendingIds(_)
\* the rows of a table in rowid order
AscendingIds(ids) ==
    IF ids = {} THEN <<>>
    ELSE LET m == Max(ids) IN Append(AscendingIds(ids \ {m}), m)

\* sessions_query, filtered by game_id when one is given: the ids selected
SelectedSessions(ss, game_filter) ==
    IF game_filter # {}
    THEN {i \in DOMAIN ss : ss[i].game_id \in game_filter}
    ELSE DOMAIN ss

\* total: the sum of rank_score of the votes targeting p in the sessions
Total(vs, p, session_ids) ==
    IF session_ids # {}
    THEN SumScores(Restrict(vs, {v \in Rows(vs) :
            v.target_player_id = p /\ v.session_id \in session_ids}))
    ELSE 0

\* Vote.rank_score == 1
IsCone(v) == v.rank_score = 1

\* cone_count: the votes targeting p with rank_score 1 in the sessions
ConeCount(vs, p, session_ids) ==
    IF session_ids # {}
    THEN BagCardinality(Restrict(vs, {v \in Rows(vs) :
            v.target_player_id = p /\ IsCone(v) /\ v.session_id \in session_ids}))
    ELSE 0

\* one turn of the loop over sessions: the votes of s that rank p at n = len(s.participants)
KingsIn(ss, vs, p, s) ==
    LET n == Cardinality(ss[s].participants)
    IN  BagCardinality(Restrict(vs, {v \in Rows(vs) :
            v.target_player_id = p /\ v.session_id = s /\ v.rank_score = n}))

RECURSIVE KingCount(_, _, _, _)
\* king_count += ... for s in sessions
KingCount(ss, vs, p, session_ids) ==
    IF session_ids = {} THEN 0
    ELSE LET s == CHOOSE x \in session_ids : TRUE
         IN  KingsIn(ss, vs, p, s) + KingCount(ss, vs, p, session_ids \ {s})

\* sum(1 for s in sessions if p in s.participants)
SessionsParticipated(ss, p, session_ids) ==
    Cardinality({s \in session_ids : p \in ss[s].participants})

LeaderboardRow(ss, vs, p, session_ids) ==
    [id |-> p,
     score |-> Total(vs, p, session_ids),
     sessions_participated |-> SessionsParticipated(ss, p, session_ids),
     cone_count |-> ConeCount(vs, p, session_ids),
     king_count |-> KingCount(ss, vs, p, session_ids)]

\* variant: the sort without reverse=True
ScoreBeforeAscending(a, b) == a.score < b.score

\* key=lambda x: x["score"], reverse=True: does a go before b
ScoreBefore(a, b) == a.score > b.score

\* row goes after the rows it does not go before: the sort is stable
InsertRow(board, row) ==
    LET before == {i \in 1..Len(board) : ~ScoreBefore(row, board[i])}
        k == IF before = {} THEN 0 ELSE Max(before)
    IN  SubSeq(board, 1, k) \o <<row>> \o SubSeq(board, k + 1, Len(board))

RECURSIVE SortByScore(_)
\* leaderboard.sort(key=..., reverse=True)
SortByScore(rows) ==
    IF rows = <<>> THEN <<>>
    ELSE InsertRow(SortByScore(SubSeq(rows, 1, Len(rows) - 1)), rows[Len(rows)])

Leaderboard(pl, ss, vs, game_filter) ==
    LET session_ids == SelectedSessions(ss, game_filter)
        order == AscendingIds(pl)
    IN  SortByScore([i \in 1..Len(order) |-> LeaderboardRow(ss, vs, order[i], session_ids)])

(***************************************************************************)
(* Responses and the request log                                           *)
(***************************************************************************)
NoBoard == <<>>

Redirect(to, session_id, error) ==
    [to |-> to, session_id |-> session_id, error |-> error, leaderboard |-> NoBoard]

Page(board) ==
    [to |-> "page", session_id |-> 0, error |-> "", leaderboard |-> board]

\* game_id is the set of the ids given: Optional[int] is empty or one id
Request(op, session_id, voter_id, ranked_ids, game_id, outcome) ==
    [op |-> op, session_id |-> session_id, voter_id |-> voter_id,
     ranked_ids |-> ranked_ids, game_id |-> game_id, outcome |-> outcome]

\* the response of submit_vote at each of its return statements
SubmitResponse(outcome, session_id) ==
    CASE outcome = "not_found" -> Redirect("/", 0, "")
      [] outcome = "closed" -> Redirect("/stats", 0, "")
      [] outcome = "already_voted" -> Redirect("/vote", session_id, "already_voted")
      [] outcome = "not_participant" -> Redirect("/vote", session_id, "not_participant")
      [] OTHER -> Redirect("/stats", 0, "")

(***************************************************************************)
(* Handlers                                                                *)
(***************************************************************************)
Init ==
    /\ players = SeedPlayers
    /\ games = SeedGames
    /\ sessions = <<>>
    /\ votes = EmptyBag
    /\ last = Request("none", 0, 0, <<>>, {}, "")
    /\ response = Redirect("", 0, "")
    /\ balloted = {}
    /\ reqs = <<>>

\* POST /create_session
CreateSession(game_id, player_ids) ==
    LET id == NextRowId(DOMAIN sessions)
        new == NewSession(game_id, ResolveParticipants(players, player_ids))
    IN  /\ id <= MaxSessionId
        /\ sessions' = [i \in DOMAIN sessions \cup {id} |->
                            IF i = id THEN new ELSE sessions[i]]
        /\ last' = Request("create_session", id, 0, <<>>, {game_id}, "ok")
        /\ response' = Redirect("/vote", id, "")
        /\ UNCHANGED <<players, games, votes, balloted, reqs>>

\* POST /submit_vote
SubmitVote(session_id, voter_id, rankings) ==
    LET outcome == CheckOutcome(sessions, games, votes, session_id, voter_id)
    IN  IF outcome # "proceed"
        THEN /\ last' = Request("submit_vote", session_id, voter_id, <<>>, {}, outcome)
             /\ response' = SubmitResponse(outcome, session_id)
             /\ UNCHANGED <<players, games, sessions, votes, balloted, reqs>>
        ELSE LET stored == votes (+) BallotVotes(session_id, voter_id, rankings)
             IN  /\ votes' = stored
                 /\ sessions' = CloseIfAllVoted(sessions, stored, session_id,
                                                sessions[session_id].participants)
                 /\ last' = Request("submit_vote", session_id, voter_id, rankings, {}, "ok")
                 /\ response' = SubmitResponse("ok", session_id)
                 /\ balloted' = balloted \cup {<<session_id, voter_id>>}
                 /\ UNCHANGED <<players, games, reqs>>

\* POST /delete_session
DeleteSession(session_id) ==
    /\ IF session_id \in DOMAIN sessions
       THEN /\ sessions' = [i \in DOMAIN sessions \ {session_id} |-> sessions[i]]
            /\ votes' = votes (-) CascadeVotes(votes, session_id)
       ELSE UNCHANGED <<sessions, votes>>
    /\ balloted' = {b \in balloted : b[1] # session_id}
    /\ last' = Request("delete_session", session_id, 0, <<>>, {}, "ok")
    /\ response' = Redirect("/stats", 0, "")
    /\ UNCHANGED <<players, games, reqs>>

\* GET /stats
StatsPage(game_filter) ==
    /\ response' = Page(Leaderboard(players, sessions, votes, game_filter))
    /\ last' = Request("stats_page", 0, 0, <<>>, game_filter, "ok")
    /\ UNCHANGED <<players, games, sessions, votes, balloted, reqs>>

\* Optional[int]: no game_id, or one
GameFilters == {{}} \cup {{g} : g \in GameIds}

Next ==
    \/ \E g \in GameIds, ids \in (SUBSET PlayerIds) \ {{}} : CreateSession(g, ids)
    \/ \E s \in SessionIds, v \in players, r \in Rankings : SubmitVote(s, v, r)
    \/ \E s \in SessionIds : DeleteSession(s)
    \/ \E f \in GameFilters : StatsPage(f)

Spec == Init /\ [][Next]_vars

(***************************************************************************)
(* SpecStats: the leaderboard over a store of three players and two games, *)
(* with a session of all three for game 1 and a session of one for game 2. *)
(***************************************************************************)
\* every ordering of the players of S
Orderings(S) ==
    {q \in SeqsUpTo(S, Cardinality(S)) : Len(q) = Cardinality(S) /\ Range(q) = S}

\* the store after create_session(1, [1, 2, 3]) and create_session(2, [2])
InitStats ==
    /\ players = StatsPlayers
    /\ games = StatsGames
    /\ sessions = <<NewSession(1, ResolveParticipants(StatsPlayers, {1, 2, 3})),
                    NewSession(2, ResolveParticipants(StatsPlayers, {2}))>>
    /\ votes = EmptyBag
    /\ last = Request("create_session", 2, 0, <<>>, {2}, "ok")
    /\ response = Redirect("/vote", 2, "")
    /\ balloted = {}
    /\ reqs = <<>>

NextStats ==
    \/ \E s \in DOMAIN sessions, v \in players, r \in Orderings(players) :
          SubmitVote(s, v, r)
    \/ \E s \in DOMAIN sessions : DeleteSession(s)
    \/ \E f \in GameFilters : StatsPage(f)

SpecStats == InitStats /\ [][NextStats]_vars

(***************************************************************************)
(* SpecConc: submit_vote requests served by concurrent threads, each on    *)
(* its own store session (SessionLocal). A request takes three steps: the  *)
(* checks of lines 78-91, the inserts up to the commit of line 104, and    *)
(* the query of the voters with the closing commit of lines 106-109. No    *)
(* lock and no transaction spans the steps: the queries run outside any    *)
(* transaction, which only the first INSERT or UPDATE begins.              *)
(***************************************************************************)
Idle == [pc |-> "idle", session_id |-> 0, voter_id |-> 0, rankings |-> <<>>,
         participant_ids |-> {}, outcome |-> ""]

\* the store after create_session(1, [1, 2]); no request has arrived
InitConc ==
    /\ players = SeedPlayers
    /\ games = SeedGames
    /\ sessions = <<NewSession(1, ResolveParticipants(SeedPlayers, {1, 2}))>>
    /\ votes = EmptyBag
    /\ last = Request("create_session", 1, 0, <<>>, {1}, "ok")
    /\ response = Redirect("/vote", 1, "")
    /\ balloted = {}
    /\ reqs = [r \in 1..NumReqs |-> Idle]

\* lines 78-91: the request arrives and runs the checks against the store
CheckStep(r, session_id, voter_id, rankings) ==
    LET outcome == CheckOutcome(sessions, games, votes, session_id, voter_id)
    IN  /\ reqs[r].pc = "idle"
        /\ reqs' = [reqs EXCEPT ![r] =
              IF outcome # "proceed"
              THEN [pc |-> "done", session_id |-> session_id, voter_id |-> voter_id,
                    rankings |-> rankings, participant_ids |-> {}, outcome |-> outcome]
              ELSE [pc |-> "insert", session_id |-> session_id, voter_id |-> voter_id,
                    rankings |-> rankings,
                    participant_ids |-> sessions[session_id].participants,
                    outcome |-> ""]]
        /\ UNCHANGED <<players, games, sessions, votes, last, response, balloted>>

\* lines 93-104: the rows of the ballot are added and committed
InsertStep(r) ==
    /\ reqs[r].pc = "insert"
    /\ votes' = votes (+) BallotVotes(reqs[r].session_id, reqs[r].voter_id,
                                      reqs[r].rankings)
    /\ reqs' = [reqs EXCEPT ![r].pc = "close"]
    /\ UNCHANGED <<players, games, sessions, last, response, balloted>>

\* lines 106-110: the voters are read back and the session closed when all voted
CloseStep(r) ==
    /\ reqs[r].pc = "close"
    /\ sessions' = CloseIfAllVoted(sessions, votes, reqs[r].session_id,
                                   reqs[r].participant_ids)
    /\ reqs' = [reqs EXCEPT ![r].pc = "done", ![r].outcome = "ok"]
    /\ UNCHANGED <<players, games, votes, last, response, balloted>>

NextConc ==
    \/ \E r \in 1..NumReqs, s \in DOMAIN sessions, v \in players, q \in Rankings :
          CheckStep(r, s, v, q)
    \/ \E r \in 1..NumReqs : InsertStep(r)
    \/ \E r \in 1..NumReqs : CloseStep(r)

SpecConc == InitConc /\ [][NextConc]_vars

(***************************************************************************)
(* Claims checked under Spec                                               *)
(***************************************************************************)
\* the rows voter_id has in session_id
VoterVotes(vs, session_id, voter_id) ==
    Restrict(vs, {v \in Rows(vs) : v.session_id = session_id /\ v.voter_id = voter_id})

\* C1: in every reachable state a session is closed (is_active = 0) if and only
\* if the distinct voters having Vote rows for it are exactly its participants.
C1_ClosedIffAllVoted ==
    \A s \in DOMAIN sessions :
        (sessions[s].is_active = 0) <=> (VoterIds(votes, s) = sessions[s].participants)

\* C2: once submit_vote has accepted a ballot of a voter for a session, a later
\* submit_vote for the same session and voter is answered error=already_voted
\* and leaves the Vote rows as they were. (The session is taken to be still open:
\* a closed one answers with the redirect to /stats.)
C2_SecondBallotRejected ==
    [][\A b \in balloted :
          (/\ b[1] \in DOMAIN sessions
           /\ sessions[b[1]].is_active = 1
           /\ last'.op = "submit_vote"
           /\ last'.session_id = b[1]
           /\ last'.voter_id = b[2])
          => (/\ last'.outcome = "already_voted"
              /\ response'.error = "already_voted"
              /\ votes' = votes)]_vars

\* the rows a ballot of voter v for session s with the list ranked must store:
\* one per entry, the entry at 0-based position i with rank_score N - i
ExpectedRow(s, v, ranked, i) ==
    [session_id |-> s, voter_id |-> v,
     target_player_id |-> ranked[i + 1], rank_score |-> Len(ranked) - i]

\* C4: a successful submit_vote with a list of N entries adds exactly N Vote rows
\* for that session and voter, the entry at 0-based position i with rank_score
\* N - i, so that the rank_scores of the rows are exactly 1..N; it removes none.
C4_BallotRows ==
    [][(last'.op = "submit_vote" /\ last'.outcome = "ok")
        => LET ranked == last'.ranked_ids
               N == Len(ranked)
               added == votes' (-) votes
           IN  /\ votes \sqsubseteq votes'
               /\ BagCardinality(added) = N
               /\ \A i \in 0..(N - 1) :
                     CopiesIn(ExpectedRow(last'.session_id, last'.voter_id, ranked, i),
                              added) = 1
               /\ {r.rank_score : r \in Rows(added)} = 1..N
               /\ \A r \in Rows(added) :
                     /\ r.session_id = last'.session_id
                     /\ r.voter_id = last'.voter_id]_vars

\* C4 witness: the ballot [2, 1] was stored as 2 -> 2 and 1 -> 1.
C4_Witness ==
    /\ last.op = "submit_vote"
    /\ last.outcome = "ok"
    /\ last.ranked_ids = <<2, 1>>
    /\ CopiesIn([session_id |-> last.session_id, voter_id |-> last.voter_id,
                 target_player_id |-> 2, rank_score |-> 2], votes) = 1
    /\ CopiesIn([session_id |-> last.session_id, voter_id |-> last.voter_id,
                 target_player_id |-> 1, rank_score |-> 1], votes) = 1

\* C5: submit_vote on an open session by a voter that is not one of its
\* participants is answered error=not_participant and changes neither the Vote
\* rows nor the sessions; and the voter of every Vote row is a participant of
\* the row's session.
C5_NotParticipantRejected ==
    [][/\ \A s \in DOMAIN sessions :
             (/\ sessions[s].is_active = 1
              /\ last'.op = "submit_vote"
              /\ last'.session_id = s
              /\ last'.voter_id \notin sessions[s].participants)
             => (/\ last'.outcome = "not_participant"
                 /\ response'.error = "not_participant"
                 /\ votes' = votes
                 /\ sessions' = sessions)
       /\ \A v \in Rows(votes') :
             /\ v.session_id \in DOMAIN sessions'
             /\ v.voter_id \in sessions'[v.session_id].participants]_vars

\* C6: in every reachable state, for every session and every voter with Vote
\* rows in it, the targets of the voter's rows are exactly the session's
\* participants, each once, and every rank_score is in 1..N for N participants.
C6_BallotRanksParticipants ==
    \A s \in DOMAIN sessions :
        \A v \in VoterIds(votes, s) :
            LET mine == VoterVotes(votes, s, v)
                N == Cardinality(sessions[s].participants)
            IN  /\ {r.target_player_id : r \in Rows(mine)} = sessions[s].participants
                /\ BagCardinality(mine) = N
                /\ \A r \in Rows(mine) : r.rank_score \in 1..N

\* C7: closed is terminal. A step from a state where a session is closed leaves
\* the session as it is, closed and with its Vote rows, or is the delete_session
\* that removes it; and a submit_vote on it returns at the is_active check with
\* the redirect to /stats, changing no Vote row and no session.
C7_ClosedIsTerminal ==
    [][\A s \in DOMAIN sessions :
          sessions[s].is_active = 0
          => /\ s \in DOMAIN sessions'
                => /\ sessions'[s] = sessions[s]
                   /\ SessionVotes(votes', s) = SessionVotes(votes, s)
             /\ s \notin DOMAIN sessions'
                => last'.op = "delete_session" /\ last'.session_id = s
             /\ (last'.op = "submit_vote" /\ last'.session_id = s)
                => /\ last'.outcome = "closed"
                   /\ response' = Redirect("/stats", 0, "")
                   /\ votes' = votes
                   /\ sessions' = sessions]_vars

\* C7 witness: a submit_vote was turned away from a closed session that every
\* participant has voted in.
C7_Witness ==
    /\ last.op = "submit_vote"
    /\ last.outcome = "closed"
    /\ last.session_id \in DOMAIN sessions
    /\ sessions[last.session_id].is_active = 0
    /\ Cardinality(sessions[last.session_id].participants) = 2
    /\ VoterIds(votes, last.session_id) = sessions[last.session_id].participants

\* sessions without the session s
WithoutSession(ss, s) == [i \in DOMAIN ss \ {s} |-> ss[i]]

\* C8: delete_session(s) leaves no session s and no Vote row of s, so that s is
\* in no session list and counts in no leaderboard, and leaves every other
\* session and its Vote rows as they were; when there was no session s it
\* changes nothing.
C8_DeleteCascades ==
    [][last'.op = "delete_session"
        => LET s == last'.session_id
           IN  /\ s \notin DOMAIN sessions'
               /\ SessionVotes(votes', s) = EmptyBag
               /\ \A f \in GameFilters : s \notin SelectedSessions(sessions', f)
               /\ DOMAIN sessions' = DOMAIN sessions \ {s}
               /\ \A t \in DOMAIN sessions \ {s} :
                     /\ sessions'[t] = sessions[t]
                     /\ SessionVotes(votes', t) = SessionVotes(votes, t)
               /\ \A f \in GameFilters :
                     Leaderboard(players, sessions', votes', f)
                         = Leaderboard(players, WithoutSession(sessions, s),
                                       votes (-) SessionVotes(votes, s), f)
               /\ s \notin DOMAIN sessions
                     => sessions' = sessions /\ votes' = votes
               /\ response' = Redirect("/stats", 0, "")]_vars

\* C8 witness: session 1 was deleted (session 2 got its id while 1 existed) and
\* the closed session 2 still has its rows.
C8_Witness ==
    /\ last.op = "delete_session"
    /\ last.session_id = 1
    /\ DOMAIN sessions = {2}
    /\ sessions[2].is_active = 0
    /\ BagCardinality(SessionVotes(votes, 2)) >= 2
    /\ BagCardinality(votes) = BagCardinality(SessionVotes(votes, 2))

\* C9: in every reachable state every session has at least one participant and
\* a game_id that is the id of a row of games; and no step changes the
\* participants of a session.
C9_SessionsValid ==
    [][/\ \A s \in DOMAIN sessions' :
             /\ sessions'[s].participants # {}
             /\ sessions'[s].game_id \in games'
       /\ \A s \in DOMAIN sessions \cap DOMAIN sessions' :
             last'.op # "create_session"
             => sessions'[s].participants = sessions[s].participants]_vars

(***************************************************************************)
(* Claims checked under SpecStats                                          *)
(***************************************************************************)
\* the number of Vote rows for which the row is in the set S
CountRows(S) == BagCardinality(Restrict(votes, S))

\* the Vote rows targeting p in the sessions of S
Targeting(p, S) ==
    {v \in Rows(votes) : v.target_player_id = p /\ v.session_id \in S}

RECURSIVE ScoreByValue(_, _, _)
\* the sum of rank_score over the Vote rows targeting p in S, counted value by
\* value: k times the number of the rows with rank_score k, for k up to top
ScoreByValue(p, S, top) ==
    IF top <= 0 THEN 0
    ELSE top * CountRows({v \in Targeting(p, S) : v.rank_score = top})
         + ScoreByValue(p, S, top - 1)

TopScore == IF Rows(votes) = {} THEN 0 ELSE Max({v.rank_score : v \in Rows(votes)})

\* the sessions a game filter selects
FilteredSessions(f) ==
    {s \in DOMAIN sessions : f = {} \/ sessions[s].game_id \in f}

\* C10: the leaderboard of stats_page has one row per player; over the sessions
\* the filter selects, the row's score is the sum of rank_score of the Votes
\* targeting the player, cone_count the number of those with rank_score 1 and
\* king_count the number of those whose rank_score is the participant count of
\* their session; the rows are in descending order of score. With the single
\* ballot [2, 1, 3] in the session of players 1, 2, 3 the rows are 2, 1, 3 with
\* the scores 3, 2, 1.
C10_Leaderboard ==
    last.op = "stats_page"
    => LET board == response.leaderboard
           S == FilteredSessions(last.game_id)
       IN  /\ Len(board) = Cardinality(players)
           /\ {board[i].id : i \in 1..Len(board)} = players
           /\ \A i \in 1..Len(board) :
                 LET p == board[i].id
                 IN  /\ board[i].score = ScoreByValue(p, S, TopScore)
                     /\ board[i].cone_count
                            = CountRows({v \in Targeting(p, S) : v.rank_score = 1})
                     /\ board[i].king_count
                            = CountRows({v \in Targeting(p, S) : v.rank_score =
                                  Cardinality(sessions[v.session_id].participants)})
           /\ \A i, j \in 1..Len(board) : i < j => board[i].score >= board[j].score
           /\ (/\ last.game_id = {}
               /\ \E v \in players : votes = BallotVotes(1, v, <<2, 1, 3>>))
              => /\ [i \in 1..Len(board) |-> board[i].id] = <<2, 1, 3>>
                 /\ [i \in 1..Len(board) |-> board[i].score] = <<3, 2, 1>>

\* C10 witness: the leaderboard over both sessions after all three have voted
\* in session 1 and one in session 2, with kings, cones and distinct scores.
C10_Witness ==
    /\ last.op = "stats_page"
    /\ last.game_id = {}
    /\ VoterIds(votes, 1) = {1, 2, 3}
    /\ VoterIds(votes, 2) # {}
    /\ Len(response.leaderboard) = Cardinality(StatsPlayers)
    /\ response.leaderboard[1].score > response.leaderboard[2].score
    /\ response.leaderboard[2].score > response.leaderboard[3].score
    /\ response.leaderboard[1].king_count > 0
    /\ response.leaderboard[3].cone_count > 0

\* the scenario of C10: the single ballot [2, 1, 3] gives the order 2, 1, 3
C10_Scenario ==
    /\ last.op = "stats_page"
    /\ last.game_id = {}
    /\ \E v \in players : votes = BallotVotes(1, v, <<2, 1, 3>>)
    /\ [i \in 1..Len(response.leaderboard) |-> response.leaderboard[i].id] = <<2, 1, 3>>

(***************************************************************************)
(* Claims checked under SpecConc                                           *)
(***************************************************************************)
\* the requests that have stored a ballot with rows for voter v in session s
Stored(s, v) ==
    {r \in DOMAIN reqs :
        /\ reqs[r].pc = "close" \/ (reqs[r].pc = "done" /\ reqs[r].outcome = "ok")
        /\ reqs[r].session_id = s
        /\ reqs[r].voter_id = v
        /\ reqs[r].rankings # <<>>}

\* C3: under every interleaving of concurrent submit_vote requests on a
\* session, no voter has Vote rows of more than one ballot, and when every
\* request has returned and every participant has voted the session is closed.
C3_RaceFree ==
    /\ \A s \in DOMAIN sessions, v \in players :
          /\ Cardinality(Stored(s, v)) <= 1
          /\ \A r \in Stored(s, v) :
                VoterVotes(votes, s, v)
                    = BallotVotes(s, v, reqs[r].rankings)
    /\ \A s \in DOMAIN sessions :
          (/\ \A r \in DOMAIN reqs : reqs[r].pc \in {"idle", "done"}
           /\ sessions[s].participants \subseteq VoterIds(votes, s))
          => sessions[s].is_active = 0

====
